---- MODULE Spec2Model ----
(***************************************************************************)
(* Model of giuplus.TextEditor (src/giuplus.go): the editor object, the    *)
(* single-line activation callback and the multi-line callback             *)
(* WrapInputtextMultiline (entry filter, pivot expansion, bare-linefeed    *)
(* scan, greedy word break).  Buffers are sequences of bytes; indices      *)
(* nl, spc and scanI keep the 0-based values of the Go code.               *)
(***************************************************************************)
EXTENDS Integers, Sequences, FiniteSets, TLC

VARIABLES
    multiline,   \* TextEditor.multiline
    wordwrap,    \* TextEditor.wordwrap
    onActivate,  \* TextEditor.onActivate: "nil" or "cb"
    selStart,    \* TextEditor.selStart
    selEnd,      \* TextEditor.selEnd
    text,        \* TextEditor.text, the bytes the host's edit buffer holds
    calls,       \* number of invocations of the activation callback
    fired,       \* number of activation events delivered in single-line mode
    panicked,    \* the Go runtime has panicked (nil function call)
    phase,       \* "idle", "passed" (a buffer-changed callback has returned),
                 \* "scan" (a buffer-changed callback is in the loop of step 2)
    dataIn,      \* data.Buffer() as the last buffer-changed callback received it
    dataNorm,    \* the buffer after steps 0 and 1 of that callback
    availW,      \* w, the width g.GetWidgetWidth reported to that callback
    dirtyNorm,   \* the host's modified flag after steps 0 and 1
    bufDirty,    \* the host's modified flag when the callback (or scan) is where it is
    scanI,       \* position of the step-2 loop: number of iterations done
    nl,          \* nl of step 2
    spc          \* spc of step 2

vars == <<multiline, wordwrap, onActivate, selStart, selEnd, text, calls, fired,
          panicked, phase, dataIn, dataNorm, availW, dirtyNorm, bufDirty,
          scanI, nl, spc>>

----------------------------------------------------------------------------
(* Bytes *)

LF == 10
CR == 13
SP == 32
PivotHi == 223
PivotLo == 191

\* U+07FF as UTF-8 bytes, and "\r\n"
Pivot == <<PivotHi, PivotLo>>
CRLF == <<CR, LF>>

----------------------------------------------------------------------------
(* Bounds *)

MaxLen == 3
MaxW == 2
MaxEvents == 2
MaxSel == 1
MaxWrapLen == 7
MaxPassLen == 6

\* the bytes of ordinary user content the model draws ("a")
Letters == {97}

Alphabet == Letters \cup {SP, LF, CR, PivotHi, PivotLo}
WrapAlphabet == Letters \cup {SP, LF, CR}
Widths == (0 - 1)..MaxW

Strings(S, n) == UNION {[1..k -> S] : k \in 0..n}

Max(a, b) == IF a >= b THEN a ELSE b

----------------------------------------------------------------------------
(* Text measurement: g.CalcTextSize returns the width of the widest line  *)
(* of the text; a linefeed ends a line, a carriage return is skipped, any  *)
(* other byte advances the line by one glyph.                              *)

GlyphAdvance(c) == IF c = CR THEN 0 ELSE 1

RECURSIVE CalcTextSizeX(_, _, _)
CalcTextSizeX(s, lineW, maxW) ==
    IF s = <<>> THEN Max(maxW, lineW)
    ELSE IF Head(s) = LF THEN CalcTextSizeX(Tail(s), 0, Max(maxW, lineW))
    ELSE CalcTextSizeX(Tail(s), lineW + GlyphAdvance(Head(s)), maxW)

TextWidth(s) == CalcTextSizeX(s, 0, 0)

----------------------------------------------------------------------------
(* Step 0: strings.ReplaceAll(string(buff), U+07FF, "\r\n"), copied back  *)

HasPrefix(s, p) == Len(s) >= Len(p) /\ SubSeq(s, 1, Len(p)) = p

RECURSIVE ReplaceAll(_, _, _)
ReplaceAll(s, old, new) ==
    IF s = <<>> THEN <<>>
    ELSE IF HasPrefix(s, old)
         THEN new \o ReplaceAll(SubSeq(s, Len(old) + 1, Len(s)), old, new)
         ELSE <<Head(s)>> \o ReplaceAll(Tail(s), old, new)

\* for i := range buff { buff[i] = buff2[i] }
CopyInto(buff, buff2) == [i \in 1..Len(buff) |-> buff2[i]]

ExpandPivots(buff) == CopyInto(buff, ReplaceAll(buff, Pivot, CRLF))

----------------------------------------------------------------------------
(* Step 1: zap every linefeed that is not preceded by a carriage return    *)

ZapStepStickyCR(st, i) ==
    LET c == st.buff[i + 1] IN
    IF c = LF /\ ~st.cr
    THEN [buff |-> [st.buff EXCEPT ![i + 1] = SP], cr |-> st.cr, dirty |-> TRUE]
    ELSE [buff |-> st.buff, cr |-> (st.cr \/ c = CR), dirty |-> st.dirty]

ZapStep(st, i) ==
    LET c == st.buff[i + 1] IN
    IF c = LF /\ ~st.cr
    THEN [buff |-> [st.buff EXCEPT ![i + 1] = SP], cr |-> st.cr, dirty |-> TRUE]
    ELSE [buff |-> st.buff, cr |-> (c = CR), dirty |-> st.dirty]

RECURSIVE ZapFrom(_, _)
ZapFrom(st, i) ==
    IF i >= Len(st.buff) THEN st ELSE ZapFrom(ZapStep(st, i), i + 1)

ZapNewlines(buff, dirty) == ZapFrom([buff |-> buff, cr |-> FALSE, dirty |-> dirty], 0)

----------------------------------------------------------------------------
(* Step 2: one iteration of the word-break loop, and the whole loop        *)

WrapStepBreakAtI(st, i, w) ==
    LET c == st.buff[i + 1]
        nl1 == IF c = LF THEN i ELSE st.nl
        spc1 == IF c = SP THEN i ELSE st.spc
        over == TextWidth(SubSeq(st.buff, nl1 + 1, i)) > w /\ spc1 > 0
    IN [buff |-> IF over THEN [st.buff EXCEPT ![i + 1] = LF] ELSE st.buff,
        nl |-> nl1, spc |-> spc1, dirty |-> (st.dirty \/ over)]

WrapStep(st, i, w) ==
    LET c == st.buff[i + 1]
        nl1 == IF c = LF THEN i ELSE st.nl
        spc1 == IF c = SP THEN i ELSE st.spc
        over == TextWidth(SubSeq(st.buff, nl1 + 1, i)) > w /\ spc1 > 0
    IN [buff |-> IF over THEN [st.buff EXCEPT ![spc1 + 1] = LF] ELSE st.buff,
        nl |-> nl1, spc |-> spc1, dirty |-> (st.dirty \/ over)]

RECURSIVE WrapFrom(_, _, _)
WrapFrom(st, i, w) ==
    IF i >= Len(st.buff) THEN st ELSE WrapFrom(WrapStep(st, i, w), i + 1, w)

WordBreak(buff, dirty, w) ==
    WrapFrom([buff |-> buff, nl |-> 0, spc |-> 0, dirty |-> dirty], 0, w)

----------------------------------------------------------------------------
(* Entry filter (CallbackCharFilter): the bytes the host commits for c     *)

EventChar(c) == IF c = LF THEN Pivot ELSE <<c>>

----------------------------------------------------------------------------
(* The editor *)

NoPass ==
    /\ phase' = "idle"
    /\ dataIn' = <<>>
    /\ dataNorm' = <<>>
    /\ availW' = 0
    /\ dirtyNorm' = FALSE
    /\ bufDirty' = FALSE
    /\ scanI' = 0
    /\ nl' = 0
    /\ spc' = 0

\* NewTextEditor(width, height, onActivate) or NewTextEditorMultiline(width, height),
\* then the text its owner installed with SetText before the first frame.
Init ==
    /\ multiline \in BOOLEAN
    /\ wordwrap = multiline
    /\ onActivate \in (IF multiline THEN {"nil"} ELSE {"nil", "cb"})
    /\ selStart = 0
    /\ selEnd = 0
    /\ text \in (IF multiline THEN Strings(Alphabet, MaxLen) ELSE {<<>>})
    /\ calls = 0
    /\ fired = 0
    /\ panicked = FALSE
    /\ phase = "idle"
    /\ dataIn = <<>>
    /\ dataNorm = <<>>
    /\ availW = 0
    /\ dirtyNorm = FALSE
    /\ bufDirty = FALSE
    /\ scanI = 0
    /\ nl = 0
    /\ spc = 0

SetOnActivate(callback) ==
    /\ ~panicked
    /\ onActivate' = callback
    /\ NoPass
    /\ UNCHANGED <<multiline, wordwrap, selStart, selEnd, text, calls, fired, panicked>>

SetWordwrap(on) ==
    /\ ~panicked
    /\ wordwrap' = on
    /\ NoPass
    /\ UNCHANGED <<multiline, onActivate, selStart, selEnd, text, calls, fired, panicked>>

SetText(s) ==
    /\ ~panicked
    /\ text' = s
    /\ NoPass
    /\ UNCHANGED <<multiline, wordwrap, onActivate, selStart, selEnd, calls, fired, panicked>>

\* CallbackCharFilter in multi-line mode; the host then commits the event character.
CharFilter(c) ==
    /\ ~panicked
    /\ multiline
    /\ Len(text) + Len(EventChar(c)) <= MaxLen
    /\ text' = text \o EventChar(c)
    /\ NoPass
    /\ UNCHANGED <<multiline, wordwrap, onActivate, selStart, selEnd, calls, fired, panicked>>

\* CallbackAlways in multi-line mode: the whole buffer-changed branch.
BufferChanged(w) ==
    /\ ~panicked
    /\ multiline
    /\ LET b0 == ExpandPivots(text)
           z == ZapNewlines(b0, TRUE)
           r == WordBreak(z.buff, z.dirty, w)
       IN /\ text' = r.buff
          /\ dataIn' = text
          /\ dataNorm' = z.buff
          /\ dirtyNorm' = z.dirty
          /\ bufDirty' = r.dirty
          /\ scanI' = Len(r.buff)
          /\ nl' = r.nl
          /\ spc' = r.spc
    /\ availW' = w
    /\ phase' = "passed"
    /\ UNCHANGED <<multiline, wordwrap, onActivate, selStart, selEnd, calls, fired, panicked>>

\* CallbackAlways in single-line mode.
Activate(s, e) ==
    /\ ~panicked
    /\ ~multiline
    /\ fired < MaxEvents
    /\ fired' = fired + 1
    /\ selStart' = s
    /\ selEnd' = e
    /\ IF onActivate = "nil"
       THEN panicked' = TRUE /\ calls' = calls
       ELSE panicked' = FALSE /\ calls' = calls + 1
    /\ NoPass
    /\ UNCHANGED <<multiline, wordwrap, onActivate, text>>

Next ==
    \/ \E cb \in {"nil", "cb"} : SetOnActivate(cb)
    \/ \E on \in BOOLEAN : SetWordwrap(on)
    \/ \E s \in Strings(Letters \cup {SP}, 1) : SetText(s)
    \/ \E c \in Letters \cup {SP, LF, CR} : CharFilter(c)
    \/ \E w \in Widths : BufferChanged(w)
    \/ \E s \in 0..MaxSel : \E e \in s..MaxSel : Activate(s, e)

Spec == Init /\ [][Next]_vars

----------------------------------------------------------------------------
(* The buffer-changed callback on longer buffers of the bytes that matter  *)
(* to word breaking, delivered again and again (once per frame).           *)

HasPivot(b) == \E i \in 1..(Len(b) - 1) : b[i] = PivotHi /\ b[i + 1] = PivotLo

BareLF(b, i) == b[i] = LF /\ (i = 1 \/ b[i - 1] # CR)

IsNormalized(b) == ~HasPivot(b) /\ \A i \in 1..Len(b) : ~BareLF(b, i)

\* NewTextEditorMultiline, then SetText.
InitPass ==
    /\ multiline = TRUE
    /\ wordwrap = TRUE
    /\ onActivate = "nil"
    /\ selStart = 0
    /\ selEnd = 0
    /\ text \in {b \in Strings(WrapAlphabet, MaxPassLen) : IsNormalized(b)}
    /\ calls = 0
    /\ fired = 0
    /\ panicked = FALSE
    /\ phase = "idle"
    /\ dataIn = <<>>
    /\ dataNorm = <<>>
    /\ availW = 0
    /\ dirtyNorm = FALSE
    /\ bufDirty = FALSE
    /\ scanI = 0
    /\ nl = 0
    /\ spc = 0

NextPass == \E w \in Widths : BufferChanged(w)

SpecPass == InitPass /\ [][NextPass]_vars

----------------------------------------------------------------------------
(* The loop of step 2, one iteration per step, inside a buffer-changed     *)
(* callback whose steps 0 and 1 found the buffer already normalized.       *)

\* The callback at line 154: steps 0 and 1 have run (and marked the buffer
\* modified at line 138), nl and spc are 0, w is what the host reported.
InitWrap ==
    /\ multiline = TRUE
    /\ wordwrap = TRUE
    /\ onActivate = "nil"
    /\ selStart = 0
    /\ selEnd = 0
    /\ text \in {b \in Strings(WrapAlphabet, MaxWrapLen) : IsNormalized(b)}
    /\ calls = 0
    /\ fired = 0
    /\ panicked = FALSE
    /\ phase = "scan"
    /\ dataIn = text
    /\ dataNorm = text
    /\ availW \in Widths
    /\ dirtyNorm = TRUE
    /\ bufDirty = TRUE
    /\ scanI = 0
    /\ nl = 0
    /\ spc = 0

\* One iteration of "for i, c := range buff" of step 2.
ScanStep ==
    /\ phase = "scan"
    /\ scanI < Len(text)
    /\ LET r == WrapStep([buff |-> text, nl |-> nl, spc |-> spc, dirty |-> bufDirty],
                         scanI, availW)
       IN /\ text' = r.buff
          /\ nl' = r.nl
          /\ spc' = r.spc
          /\ bufDirty' = r.dirty
    /\ scanI' = scanI + 1
    /\ UNCHANGED <<multiline, wordwrap, onActivate, selStart, selEnd, calls, fired,
                   panicked, phase, dataIn, dataNorm, availW, dirtyNorm>>

NextWrap == ScanStep

SpecWrap == InitWrap /\ [][NextWrap]_vars

----------------------------------------------------------------------------
(* Helpers of the properties *)

Passed == phase = "passed"

\* 1-based position of the last linefeed of b at or before position i, 0 if none
LastLF(b, i) ==
    LET S == {j \in 1..i : b[j] = LF} IN
    IF S = {} THEN 0 ELSE CHOOSE j \in S : \A k \in S : k <= j

\* 1-based position of the last byte of the word that follows position s
WordEnd(b, s) ==
    LET S == {j \in (s + 1)..Len(b) : b[j] \in {SP, LF}} IN
    IF S = {} THEN Len(b) ELSE (CHOOSE j \in S : \A k \in S : j <= k) - 1

IsWord(b) == b # <<>> /\ \A i \in 1..Len(b) : b[i] \notin {SP, LF, CR}

\* b is two space-free words separated by one space, at position k
TwoWordsAt(b, k) ==
    /\ k \in 2..(Len(b) - 1)
    /\ b[k] = SP
    /\ IsWord(SubSeq(b, 1, k - 1))
    /\ IsWord(SubSeq(b, k + 1, Len(b)))

PartOfPivot(b, i) ==
    \/ b[i] = PivotHi /\ i < Len(b) /\ b[i + 1] = PivotLo
    \/ b[i] = PivotLo /\ i > 1 /\ b[i - 1] = PivotHi

----------------------------------------------------------------------------
(* C1: after steps 0 and 1 of a buffer-changed callback the buffer holds   *)
(* no Pivot Marker and every linefeed in it is immediately preceded by a   *)
(* carriage return.                                                        *)
NormalizerPostcondition == Passed => IsNormalized(dataNorm)

\* a callback has run on a buffer that held a Pivot Marker and a bare linefeed
NormalizerWitness ==
    /\ Passed
    /\ HasPivot(dataIn)
    /\ \E i \in 1..Len(dataIn) : BareLF(dataIn, i)
    /\ dataNorm # dataIn

(* C2: wrap idempotence: when the word-break loop of step 2 has run on a   *)
(* normalized buffer, running that loop again on its output, with the same *)
(* width, changes no byte of the buffer and raises no modification signal. *)
WrapIdempotent ==
    (Passed /\ IsNormalized(dataIn)) =>
        LET r == WordBreak(text, FALSE, availW)
        IN r.buff = text /\ ~r.dirty

(* C3: steps 0 and 1 on an already normalized buffer change no byte and    *)
(* do not raise the modification signal.                                   *)
NormalizerIdempotent ==
    (Passed /\ IsNormalized(dataIn)) => (dataNorm = dataIn /\ ~dirtyNorm)

(* C4: on a buffer of two space-free words separated by one space, with a  *)
(* width that fits the first word and the space but not the whole buffer,  *)
(* the word-break loop turns that space into a linefeed and changes        *)
(* nothing else.                                                           *)
TwoWordsWrapped ==
    \A k \in 1..Len(dataNorm) :
        ( /\ Passed
          /\ TwoWordsAt(dataNorm, k)
          /\ TextWidth(SubSeq(dataNorm, 1, k)) <= availW
          /\ availW < TextWidth(dataNorm) )
        => text = [dataNorm EXCEPT ![k] = LF]

(* C5: a step of the word-break loop at which the measured width exceeds   *)
(* the available width while no space lies between the most recent         *)
(* linefeed and the scan position changes no byte of the buffer.           *)
UnbreakableRunPolicy ==
    [][ ( /\ phase = "scan"
          /\ scanI < Len(text)
          /\ scanI' = scanI + 1
          /\ TextWidth(SubSeq(text, (IF text[scanI + 1] = LF THEN scanI ELSE nl) + 1,
                               scanI)) > availW
          /\ \A k \in (LastLF(text, scanI + 1) + 1)..(scanI + 1) : text[k] # SP )
        => text' = text ]_vars

(* C6: a buffer-changed callback keeps the length of the buffer; a byte    *)
(* that is not a space, a linefeed or part of a Pivot Marker stays where   *)
(* it is; the rewrites are Pivot Marker to CR LF, linefeed to space and    *)
(* space to linefeed; a CR LF of the input is still there afterwards.      *)
ContentPreserved ==
    Passed =>
        /\ Len(text) = Len(dataIn)
        /\ \A i \in 1..Len(dataIn) :
              \/ text[i] = dataIn[i]
              \/ PartOfPivot(dataIn, i) /\ dataIn[i] = PivotHi /\ text[i] = CR
              \/ PartOfPivot(dataIn, i) /\ dataIn[i] = PivotLo /\ text[i] = LF
              \/ dataIn[i] = LF /\ text[i] = SP
              \/ dataIn[i] = SP /\ text[i] = LF
        /\ \A i \in 1..(Len(dataIn) - 1) :
              (dataIn[i] = CR /\ dataIn[i + 1] = LF) => (text[i] = CR /\ text[i + 1] = LF)

\* a callback has expanded a Pivot Marker into a manual break and the word-break
\* loop has turned a space into a linefeed
ContentWitness ==
    /\ Passed
    /\ \E i \in 1..(Len(dataIn) - 1) :
          dataIn[i] = PivotHi /\ text[i] = CR /\ text[i + 1] = LF
    /\ \E i \in 1..Len(dataIn) : dataIn[i] = SP /\ text[i] = LF

(* C7: a single-line activation event does not abort, whether or not a     *)
(* callback is registered, and invokes a registered callback exactly once. *)
ActivationNeverAborts ==
    [][ fired' = fired + 1 =>
          /\ ~panicked'
          /\ calls' = calls + (IF onActivate = "cb" THEN 1 ELSE 0) ]_vars

(* C8: with an available width of zero or less the word-break loop leaves  *)
(* the buffer unchanged.                                                   *)
NonPositiveWidthNeverWraps == (Passed /\ availW <= 0) => text = dataNorm

(* C9: with the word-wrap flag off a buffer-changed callback turns no      *)
(* space into a linefeed.                                                  *)
WordwrapOffNoBreak ==
    (Passed /\ ~wordwrap) =>
        \A i \in 1..Len(text) : ~(dataNorm[i] = SP /\ text[i] = LF)

(* C10: the word-break loop turns a space into a linefeed only if the      *)
(* text from the start of the space's own visual line through the end of   *)
(* the following word is wider than the available width.                   *)
SoftBreakOnlyOnOverflow ==
    [][ phase = "scan" =>
          \A s \in 1..Len(text) :
              (text[s] = SP /\ text'[s] = LF) =>
                  TextWidth(SubSeq(text, LastLF(text, s) + 1, WordEnd(text, s))) > availW
      ]_vars

====
